---- MODULE Spec2Model ----
(***************************************************************************)
(* A model of sledge's download engine (src/src/download.rs) and its       *)
(* progress reporter (src/src/reporter.rs).                                *)
(*                                                                         *)
(* One call of Download::download() is modelled: the orchestrating thread  *)
(* (download_serial / download_parallel), the worker threads it spawns     *)
(* (the closures calling get and stream), the mpsc channel between the     *)
(* workers and Reporter::listen, the destination file and standard output, *)
(* and the HTTP server as a nondeterministic environment.                  *)
(*                                                                         *)
(* Not modelled: the name of the Default target's file (the file a         *)
(* response names is taken to be one file for the whole download, and the  *)
(* unwraps of open_default_file_target not to panic), the headers other    *)
(* than Range and Content-Length, and the drawing of the progress bar.     *)
(*                                                                         *)
(* Specifications: Spec is every download; SerialSpec and ParallelSpec are *)
(* its downloads of one mode; PlanSpec is the range loop of                *)
(* download_parallel for larger lengths; FairSpec is Spec with threads     *)
(* that keep being scheduled.                                              *)
(***************************************************************************)
EXTENDS Integers, Sequences, FiniteSets, TLC

(* ------------------------------ bounds -------------------------------- *)

\* largest resource length served by the server
MaxLen == 3
\* largest resource length of the downloads explored in mode Parallel alone
MaxParallelLen == 1
\* largest n of DownloadMode::Parallel(n)
MaxWorkers == 2
\* largest number of bytes one reader.read() call hands over
MaxRead == 2
\* largest totalLength / worker count explored for the range arithmetic alone
MaxPlanLen == 12
MaxPlanWorkers == 4
\* largest number of reads of one download that fail with kind Interrupted
MaxInterrupts == 1

\* src/src/lib.rs:11
DEFAULT_BUFF_SIZE == 1048576

(* ------------------------------ helpers ------------------------------- *)

min(a, b) == IF a <= b THEN a ELSE b

Max(a, b) == IF a >= b THEN a ELSE b

RECURSIVE Sum(_)
Sum(s) == IF s = <<>> THEN 0 ELSE Head(s) + Sum(Tail(s))

\* Result<u64, DownloadError>: DownloadError wraps a String, kept as the
\* sequence of the pieces it was formatted from
Ok(v) == [ok |-> TRUE, val |-> v, msg |-> <<>>]
Err(m) == [ok |-> FALSE, val |-> 0, msg |-> m]
\* no result yet (a thread still running, a call not yet returned)
Pending == [ok |-> FALSE, val |-> -1, msg |-> <<>>]

IsErr(r) == ~r.ok /\ r.val = 0

\* the messages of the errors that carry no data
HyperError == <<"hyper error">>
IoError == <<"io error">>
NoLengthError == <<"server did not provide a content length!">>
StdOutError == <<"Cannot take offset on stdout">>
CreateError == <<"unable to open file ", "name", " for writing: ", "io error">>

(* --------------------------- the HTTP server -------------------------- *)

\* the resource's bytes: offset k (0-based) holds the byte k + 1, so that every
\* offset has its own value and 0 is what a hole of the file reads as
Resource(len) == [k \in 1..len |-> k]

StatusText(code) ==
    CASE code = 200 -> "200 OK"
      [] code = 206 -> "206 Partial Content"
      [] code = 404 -> "404 Not Found"
      [] code = 416 -> "416 Range Not Satisfiable"

\* hyper's Response, as far as the code reads it: status, the ContentLength
\* header (length, when has_length), the body as bytes and, for the error
\* path, the body as read_to_string returns it
Response(code, has_length, length, bytes, text) ==
    [status |-> code, has_length |-> has_length, length |-> length,
     body |-> bytes, text |-> text]

NoResponse == Response(0, FALSE, 0, <<>>, "")

\* the bytes a server honouring "Range: bytes=from-to" sends: both ends are
\* inclusive, the last position is clamped to the resource's last byte
RangeBody(len, from, to) ==
    SubSeq(Resource(len), from + 1, min(to, len - 1) + 1)

\* how a server treats the Range header of a GET: it ignores it and sends the
\* whole resource with 200; it honours it with 206 (or 416), as HTTP asks; or
\* it honours it and yet answers 200
ServerKinds == {"ignores_range", "partial_206", "partial_200"}

RangeResponse(kind, found, len, from, to, has_length) ==
    LET part == RangeBody(len, from, to)
        satisfiable == from < len /\ from <= to
        unsatisfiable == Response(416, TRUE, 0, <<>>, "")
    IN  CASE ~found -> Response(404, TRUE, 9, <<>>, "not found")
          [] kind = "ignores_range" ->
                Response(200, has_length, len, Resource(len), "")
          [] kind = "partial_206" ->
                IF satisfiable
                THEN Response(206, TRUE, Len(part), part, "bytes")
                ELSE unsatisfiable
          [] kind = "partial_200" ->
                IF satisfiable
                THEN Response(200, has_length, Len(part), part, "")
                ELSE unsatisfiable

\* how a server may answer a request without a Range header (the serial GET,
\* the parallel HEAD, whose body is empty)
PlainResponse(found, len, has_length, is_head) ==
    IF found
    THEN Response(200, has_length, len,
                  IF is_head THEN <<>> ELSE Resource(len), "")
    ELSE Response(404, TRUE, 9, <<>>, IF is_head THEN "" ELSE "not found")

(* ----------------------- the pure parts of the code -------------------- *)

\* a raise_for_status that left the body out of the message
raise_for_status_no_body(response, read_ok) ==
    IF response.status # 200
    THEN IF read_ok
         THEN Err(<<StatusText(response.status)>>)
         ELSE Err(IoError)
    ELSE Ok(0)

\* raise_for_status: Ok(0) stands for Ok(response), the caller keeps the
\* response; read_ok tells whether read_to_string succeeded on the body
raise_for_status(response, read_ok) ==
    IF response.status # 200
    THEN IF read_ok
         THEN Err(<<StatusText(response.status), ": ", response.text>>)
         ELSE Err(IoError)
    ELSE Ok(0)

\* get and head: sent tells whether request.send() returned a response
get(sent, response, read_ok) ==
    IF sent THEN raise_for_status(response, read_ok) ELSE Err(HyperError)

head(sent, response, read_ok) ==
    IF sent THEN raise_for_status(response, read_ok) ELSE Err(HyperError)

\* a parse_content_length that took a missing Content-Length for 0
parse_content_length_or_zero(response) ==
    Ok(IF response.has_length THEN response.length ELSE 0)

parse_content_length(response) ==
    IF response.has_length THEN Ok(response.length) ELSE Err(NoLengthError)

\* the range arithmetic of download_parallel
block_size(size, n) == size \div n

start(i, size, n) == min(i * block_size(size, n), size)

end(i, size, n) == min((i + 1) * block_size(size, n), size)

\* ByteRangeSpec::FromTo(start, end): "bytes=start-end", both ends inclusive
ByteRangeSpec(from, to) == [from |-> from, to |-> to]

(* ----------------------------- the file system ------------------------- *)

Zeros(k) == [j \in 1..k |-> 0]

\* File::set_len on the content of a file
set_len(data, size) ==
    IF size <= Len(data)
    THEN SubSeq(data, 1, size)
    ELSE data \o Zeros(size - Len(data))

\* write_all at a handle's position: a write past the end leaves a hole of zeros
write_at(data, pos, bytes) ==
    [j \in 1..Max(Len(data), pos + Len(bytes)) |->
        IF j > pos /\ j <= pos + Len(bytes) THEN bytes[j - pos]
        ELSE IF j <= Len(data) THEN data[j] ELSE 0]

\* File::create: creates the file or truncates it, the handle is writable
File_create(f, create_ok) ==
    IF create_ok
    THEN [res |-> Ok(0), file |-> [exists |-> TRUE, data |-> <<>>], handle |-> "rw"]
    ELSE [res |-> Err(IoError), file |-> f, handle |-> "none"]

\* File::open: read-only, fails when the file does not exist
File_open(f) ==
    IF f.exists
    THEN [res |-> Ok(0), file |-> f, handle |-> "ro"]
    ELSE [res |-> Err(IoError), file |-> f, handle |-> "none"]

\* the file the response names is one file throughout a download
open_default_file_target(f, create_ok) ==
    LET o == File_create(f, create_ok)
    IN  IF o.res.ok THEN o ELSE [o EXCEPT !.res = Err(CreateError)]

\* File::set_len through a handle: only a writable handle may resize
File_set_len(o, size) ==
    IF o.handle = "rw"
    THEN [res |-> Ok(0), file |-> [o.file EXCEPT !.data = set_len(@, size)]]
    ELSE [res |-> Err(IoError), file |-> o.file]

\* a set_target_len for which standard output needs no length
set_target_len_stdout_ok(tgt, sz, f, create_ok) ==
    CASE tgt = "Default" ->
            LET o == open_default_file_target(f, create_ok)
            IN  IF o.res.ok THEN File_set_len(o, sz)
                ELSE [res |-> o.res, file |-> f]
      [] tgt = "File" ->
            LET o == File_open(f)
            IN  IF o.res.ok THEN File_set_len(o, sz)
                ELSE [res |-> o.res, file |-> f]
      [] tgt = "StdOut" -> [res |-> Ok(0), file |-> f]

set_target_len(tgt, sz, f, create_ok) ==
    CASE tgt = "Default" ->
            LET o == open_default_file_target(f, create_ok)
            IN  IF o.res.ok THEN File_set_len(o, sz)
                ELSE [res |-> o.res, file |-> f]
      [] tgt = "File" ->
            LET o == File_open(f)
            IN  IF o.res.ok THEN File_set_len(o, sz)
                ELSE [res |-> o.res, file |-> f]
      [] tgt = "StdOut" -> [res |-> Err(StdOutError), file |-> f]

(* -------------------------------- state -------------------------------- *)

VARIABLES
    mode,          \* self.mode: [parallel, n]
    target,        \* self.target: "Default", "File" or "StdOut"
    reporter,      \* the type R of self.reporter
    resource_len,  \* the length of the resource the url names
    server,        \* how the server of the url treats a Range header
    pc,            \* where download() stands
    probe,         \* the response to the first request (response / head), if
                   \* one was received
    size,          \* the parsed content length
    i,             \* the loop counter of download_parallel, children.len()
    tx,            \* the sender download_parallel keeps in scope
    rx,            \* the receiver is alive
    queue,         \* the channel: CompletedSegments sent and not yet received
    pb,            \* the progress bar's count: the sum of the len received
    result,        \* what download() returned
    file,          \* the destination file: [exists, data]
    sized,         \* set_target_len has succeeded
    stdout,        \* the bytes written to standard output
    wpc,           \* per worker thread: where it stands
    headers,       \* per worker: the Range header of its request
    offset,        \* per worker: the offset stream is called with
    response,      \* per worker: the response it streams
    handle,        \* per worker: the file handle stream opened
    pos,           \* per worker: the position of its handle
    written,       \* per worker: copy_with_reporter's written
    sent,          \* per worker: the CompletedSegments it has sent
    interrupted,   \* the reads that failed with kind Interrupted so far
    wres           \* per worker: what its closure returned

vars == <<mode, target, reporter, resource_len, server, pc, probe, size, i, tx, rx,
          queue, pb, result, file, sized, stdout, wpc, headers, offset,
          response, handle, pos, written, sent, interrupted, wres>>

inputs == <<mode, target, reporter, resource_len, server>>

orch == <<pc, probe, size, i, tx, result, sized>>

chan == <<rx, queue, pb>>

workers == <<wpc, headers, offset, response, handle, pos, written, sent,
            interrupted, wres>>

DownloadTarget == {"Default", "File", "StdOut"}

Serial == [parallel |-> FALSE, n |-> 0]

Parallel(n) == [parallel |-> TRUE, n |-> n]

\* the implementors of the Reporter trait: ProgressBarReporter, and any other,
\* of which the code knows only the signature of listen
Reporters == {"ProgressBarReporter", "Other"}

\* the threads of one download: children[0..n-1], or the single downloader
Threads == 0..((IF mode.parallel THEN mode.n ELSE 1) - 1)

CompletedSegment(s, l) == [start |-> s, len |-> l, md5 |-> ""]

\* a thread that holds a clone of the sender: spawned and not yet returned
Running(w) == wpc[w] \in {"get", "stream", "seek", "copy"}

SendersAlive == tx \/ \E w \in Threads : Running(w)

\* before download() is called; the file of the target may exist already
InitWith(modes, lens) ==
    /\ mode \in modes
    /\ target \in DownloadTarget
    /\ reporter \in Reporters
    /\ resource_len \in lens
    /\ server \in ServerKinds
    /\ pc = "start"
    /\ probe = NoResponse
    /\ size = 0
    /\ i = 0
    /\ tx = FALSE
    /\ rx = FALSE
    /\ queue = <<>>
    /\ pb = 0
    /\ result = Pending
    /\ file \in {[exists |-> FALSE, data |-> <<>>], [exists |-> TRUE, data |-> <<9>>]}
    /\ sized = FALSE
    /\ stdout = <<>>
    /\ wpc = [w \in Threads |-> "idle"]
    /\ headers = [w \in Threads |-> ByteRangeSpec(0, 0)]
    /\ offset = [w \in Threads |-> 0]
    /\ response = [w \in Threads |-> NoResponse]
    /\ handle = [w \in Threads |-> "none"]
    /\ pos = [w \in Threads |-> 0]
    /\ written = [w \in Threads |-> 0]
    /\ sent = [w \in Threads |-> <<>>]
    /\ interrupted = 0
    /\ wres = [w \in Threads |-> Pending]

Init == InitWith({Serial} \cup {Parallel(n) : n \in 1..MaxWorkers}, 0..MaxLen)

(* ------------------------ download_serial, the caller ------------------ *)

\* a try! that failed: download() returns the error
Return(r) ==
    /\ result' = r
    /\ pc' = "done"

\* get and parse_content_length
download_serial_get ==
    /\ pc = "start" /\ ~mode.parallel
    /\ \E sent_ok, found, has_length, read_ok \in BOOLEAN :
        LET r == PlainResponse(found, resource_len, has_length, FALSE)
            g == get(sent_ok, r, read_ok)
            l == parse_content_length(r)
        IN  /\ probe' = IF sent_ok THEN r ELSE NoResponse
            /\ IF ~g.ok THEN Return(g) /\ UNCHANGED size
               ELSE IF ~l.ok THEN Return(l) /\ UNCHANGED size
               ELSE /\ size' = l.val
                    /\ pc' = "sizing"
                    /\ UNCHANGED result
    /\ UNCHANGED <<inputs, i, tx, sized, chan, file, stdout, workers>>

\* set_target_len and, once it succeeded, channel(); the same in both modes
Sizing ==
    \E create_ok \in BOOLEAN :
        LET s == set_target_len(target, size, file, create_ok)
        IN  /\ file' = s.file
            /\ IF s.res.ok
               THEN /\ sized' = TRUE
                    /\ pc' = "spawn"
                    /\ tx' = TRUE
                    /\ rx' = TRUE
                    /\ UNCHANGED result
               ELSE /\ Return(s.res)
                    /\ UNCHANGED <<sized, tx, rx>>

download_serial_size ==
    /\ pc = "sizing" /\ ~mode.parallel
    /\ Sizing
    /\ UNCHANGED <<inputs, probe, size, i, queue, pb, stdout, workers>>

\* a download_serial that gave the downloader a clone of tx and kept tx itself
serial_sender_kept == TRUE

\* whether download_serial still holds a Sender once the downloader is
\* spawned: tx itself moved into the closure
serial_sender == FALSE

\* channel(), thread::spawn: response and tx move into the downloader
download_serial_spawn ==
    /\ pc = "spawn" /\ ~mode.parallel
    /\ wpc' = [wpc EXCEPT ![0] = "stream"]
    /\ response' = [response EXCEPT ![0] = probe]
    /\ offset' = [offset EXCEPT ![0] = 0]
    /\ tx' = serial_sender
    /\ i' = 1
    /\ pc' = "listen"
    /\ UNCHANGED <<inputs, interrupted, probe, size, result, sized, chan,
                   file, stdout, headers, handle, pos, written, sent, wres>>

\* a download_serial that dropped the downloader's result as download_parallel does
serial_result_dropped(sz, r) == Ok(sz)

\* what download_serial returns: the downloader's own result
serial_result(sz, r) == r

\* downloader.join().unwrap()
download_serial_join ==
    /\ pc = "join" /\ ~mode.parallel
    /\ wpc[0] = "done"
    /\ Return(serial_result(size, wres[0]))
    /\ UNCHANGED <<inputs, probe, size, i, tx, sized, chan, file, stdout,
                   workers>>

(* ----------------------- download_parallel, the caller ----------------- *)

\* head, parse_content_length
download_parallel_head ==
    /\ pc = "start" /\ mode.parallel
    /\ \E sent_ok, found, has_length, read_ok \in BOOLEAN :
        LET r == PlainResponse(found, resource_len, has_length, TRUE)
            g == head(sent_ok, r, read_ok)
            l == parse_content_length(r)
        IN  /\ probe' = IF sent_ok THEN r ELSE NoResponse
            /\ IF ~g.ok THEN Return(g) /\ UNCHANGED size
               ELSE IF ~l.ok THEN Return(l) /\ UNCHANGED size
               ELSE /\ size' = l.val
                    /\ pc' = "sizing"
                    /\ UNCHANGED result
    /\ UNCHANGED <<inputs, i, tx, sized, chan, file, stdout, workers>>

download_parallel_size ==
    /\ pc = "sizing" /\ mode.parallel
    /\ Sizing
    /\ UNCHANGED <<inputs, probe, size, i, queue, pb, stdout, workers>>

\* one turn of "for i in 0..n": the range of child i, its thread spawned with
\* a clone of tx; after the last turn the caller goes on to listen
download_parallel_spawn ==
    /\ pc = "spawn" /\ mode.parallel
    /\ i < mode.n
    /\ headers' = [headers EXCEPT ![i] =
            ByteRangeSpec(start(i, size, mode.n), end(i, size, mode.n))]
    /\ offset' = [offset EXCEPT ![i] = start(i, size, mode.n)]
    /\ wpc' = [wpc EXCEPT ![i] = "get"]
    /\ i' = i + 1
    /\ pc' = IF i + 1 = mode.n THEN "listen" ELSE "spawn"
    /\ UNCHANGED <<inputs, interrupted, probe, size, tx, result, sized, chan,
                   file, stdout, response, handle, pos, written, sent, wres>>

\* a download_parallel that returned the first error among its children
parallel_result_first_error(sz, results) ==
    IF \E w \in DOMAIN results : IsErr(results[w])
    THEN results[CHOOSE w \in DOMAIN results : IsErr(results[w])]
    ELSE Ok(sz)

\* what download_parallel returns once every child is joined: the results of
\* the joins are dropped
parallel_result(sz, results) == Ok(sz)

\* "for child in children { child.join() }", Ok(size); tx goes out of scope
download_parallel_join ==
    /\ pc = "join" /\ mode.parallel
    /\ \A w \in Threads : wpc[w] = "done"
    /\ Return(parallel_result(size, wres))
    /\ tx' = FALSE
    /\ UNCHANGED <<inputs, probe, size, i, sized, chan, file, stdout,
                   workers>>

(* ------------------------------ the threads ---------------------------- *)

\* a thread returns r: its closure ends and drops its sender, its response
\* and its file handle
Finish(w, r) ==
    /\ wres' = [wres EXCEPT ![w] = r]
    /\ wpc' = [wpc EXCEPT ![w] = "done"]
    /\ response' = [response EXCEPT ![w] = NoResponse]
    /\ handle' = [handle EXCEPT ![w] = "none"]
    /\ pos' = [pos EXCEPT ![w] = 0]

\* the closure of child w: get(url, headers) with its Range header
thread_get(w) ==
    /\ wpc[w] = "get"
    /\ \E sent_ok, found, has_length, read_ok \in BOOLEAN :
        LET r == RangeResponse(server, found, resource_len, headers[w].from,
                               headers[w].to, has_length)
            g == get(sent_ok, r, read_ok)
        IN  IF ~g.ok THEN Finish(w, g)
            ELSE /\ response' = [response EXCEPT ![w] = r]
                 /\ wpc' = [wpc EXCEPT ![w] = "stream"]
                 /\ UNCHANGED <<wres, handle, pos>>
    /\ UNCHANGED <<inputs, interrupted, orch, chan, file, stdout, headers,
                   offset, written, sent>>

\* the handle stream opens for a target
stream_target(tgt, f, create_ok) ==
    CASE tgt = "Default" -> open_default_file_target(f, create_ok)
      [] tgt = "File" -> File_open(f)
      [] tgt = "StdOut" -> [res |-> Ok(0), file |-> f, handle |-> "stdout"]

\* stream, up to the open: parse_content_length, then the target's handle
stream_open(w) ==
    /\ wpc[w] = "stream"
    /\ \E create_ok \in BOOLEAN :
        LET l == parse_content_length(response[w])
            o == stream_target(target, file, create_ok)
        IN  IF ~l.ok THEN Finish(w, l) /\ UNCHANGED file
            ELSE IF ~o.res.ok THEN Finish(w, o.res) /\ UNCHANGED file
            ELSE /\ file' = o.file
                 /\ handle' = [handle EXCEPT ![w] = o.handle]
                 /\ wpc' = [wpc EXCEPT ![w] =
                        IF o.handle = "stdout" THEN "copy" ELSE "seek"]
                 /\ UNCHANGED <<wres, response, pos>>
    /\ UNCHANGED <<inputs, interrupted, orch, chan, stdout, headers, offset,
                   written, sent>>

\* file.seek(SeekFrom::Start(offset))
stream_seek(w) ==
    /\ wpc[w] = "seek"
    /\ pos' = [pos EXCEPT ![w] = offset[w]]
    /\ wpc' = [wpc EXCEPT ![w] = "copy"]
    /\ UNCHANGED <<inputs, interrupted, orch, chan, file, stdout, headers,
                   offset, response, handle, written, sent, wres>>

(* --------------------------- copy_with_reporter ------------------------ *)

\* writer.write_all(&buf[..len]): a handle opened read-only cannot be written,
\* a write may fail (write_ok), standard output has no position
write_all(h, f, out, p, bytes, write_ok) ==
    IF h = "rw" /\ write_ok
    THEN [ok |-> TRUE, file |-> [f EXCEPT !.data = write_at(@, p, bytes)], stdout |-> out]
    ELSE IF h = "stdout" /\ write_ok
    THEN [ok |-> TRUE, file |-> f, stdout |-> out \o bytes]
    ELSE [ok |-> FALSE, file |-> f, stdout |-> out]

\* a CompletedSegment whose len carries the running total as well
reported_cumulative(written_now, len) == CompletedSegment(written_now, written_now)

\* a CompletedSegment whose start carries the chunk's len instead of written
reported_chunk_only(written_now, len) == CompletedSegment(len, len)

\* the segment reported after a write of len bytes, written counting them
reported(written_now, len) == CompletedSegment(written_now, len)

\* reporter.send(..): the result is ignored; the segment is queued while the
\* receiver lives
send(q, alive, segment) == IF alive THEN Append(q, segment) ELSE q

\* one turn of the loop with Ok(len), len > 0: write_all, written += len, send
copy_chunk(w) ==
    /\ wpc[w] = "copy"
    /\ response[w].body # <<>>
    /\ \E len \in 1..min(min(MaxRead, DEFAULT_BUFF_SIZE), Len(response[w].body)),
          write_ok \in BOOLEAN :
        LET buf == SubSeq(response[w].body, 1, len)
            rest == SubSeq(response[w].body, len + 1, Len(response[w].body))
            o == write_all(handle[w], file, stdout, pos[w], buf, write_ok)
        IN  IF ~o.ok
            THEN /\ Finish(w, Err(IoError))
                 /\ UNCHANGED <<file, stdout, written, sent, queue>>
            ELSE /\ response' = [response EXCEPT ![w].body = rest]
                 /\ file' = o.file
                 /\ stdout' = o.stdout
                 /\ pos' = [pos EXCEPT ![w] = @ + len]
                 /\ written' = [written EXCEPT ![w] = @ + len]
                 /\ sent' = [sent EXCEPT ![w] =
                        Append(@, reported(written[w] + len, len))]
                 /\ queue' = send(queue, rx, reported(written[w] + len, len))
                 /\ UNCHANGED <<wpc, wres, handle>>
    /\ UNCHANGED <<inputs, interrupted, orch, rx, pb, headers, offset>>

\* Ok(0): the body has ended, return Ok(written)
copy_eof(w) ==
    /\ wpc[w] = "copy"
    /\ response[w].body = <<>>
    /\ Finish(w, Ok(written[w]))
    /\ UNCHANGED <<inputs, interrupted, orch, chan, file, stdout, headers,
                   offset, written, sent>>

\* a loop that took every failed read for the end of the copy
read_error_ends_always(kind) == TRUE

\* the match on the read's Err: kind Interrupted goes round the loop again,
\* any other returns the error
read_error_ends(kind) == kind # "Interrupted"

\* one turn of the loop with reader.read() returning Err of this kind
copy_read_failed(w, kind) ==
    /\ wpc[w] = "copy"
    /\ interrupted' = interrupted + (IF kind = "Interrupted" THEN 1 ELSE 0)
    /\ IF read_error_ends(kind)
       THEN Finish(w, Err(IoError))
       ELSE UNCHANGED <<wpc, wres, response, handle, pos>>
    /\ UNCHANGED <<inputs, orch, chan, file, stdout, headers, offset, written,
                   sent>>

\* Err of kind Interrupted: continue
copy_interrupted(w) ==
    /\ interrupted < MaxInterrupts
    /\ copy_read_failed(w, "Interrupted")

\* any other Err of read: return Err(e)
copy_read_error(w) == copy_read_failed(w, "Other")

(* -------------------------------- listen ------------------------------- *)

\* "for segment in receiver": pb.add(segment.len)
listen_recv ==
    /\ pc = "listen"
    /\ queue # <<>>
    /\ pb' = pb + Head(queue).len
    /\ queue' = Tail(queue)
    /\ UNCHANGED <<inputs, orch, rx, file, stdout, workers>>

\* when ProgressBarReporter's loop ends: the channel is empty and every sender
\* has been dropped
disconnected(q, senders) == q = <<>> /\ ~senders

\* ProgressBarReporter::listen returns, the receiver is dropped
listen_end ==
    /\ pc = "listen"
    /\ reporter = "ProgressBarReporter"
    /\ disconnected(queue, SendersAlive)
    /\ rx' = FALSE
    /\ pc' = "join"
    /\ UNCHANGED <<inputs, probe, size, i, tx, result, sized, queue, pb, file,
                   stdout, workers>>

\* another Reporter's listen may return whenever it likes, dropping the
\* receiver and what is queued in it
listen_return ==
    /\ pc = "listen"
    /\ reporter = "Other"
    /\ rx' = FALSE
    /\ queue' = <<>>
    /\ pc' = "join"
    /\ UNCHANGED <<inputs, probe, size, i, tx, result, sized, pb, file,
                   stdout, workers>>

(* --------------------------- the specifications ------------------------ *)

Next ==
    \/ download_serial_get
    \/ download_serial_size
    \/ download_serial_spawn
    \/ download_serial_join
    \/ download_parallel_head
    \/ download_parallel_size
    \/ download_parallel_spawn
    \/ download_parallel_join
    \/ listen_recv
    \/ listen_end
    \/ listen_return
    \/ \E w \in Threads : thread_get(w)
    \/ \E w \in Threads : stream_open(w)
    \/ \E w \in Threads : stream_seek(w)
    \/ \E w \in Threads : copy_chunk(w)
    \/ \E w \in Threads : copy_eof(w)
    \/ \E w \in Threads : copy_interrupted(w)
    \/ \E w \in Threads : copy_read_error(w)

Spec == Init /\ [][Next]_vars

SerialInit == InitWith({Serial}, 0..MaxLen)

\* the steps of a download in mode Serial: the others need mode.parallel
SerialNext ==
    \/ download_serial_get
    \/ download_serial_size
    \/ download_serial_spawn
    \/ download_serial_join
    \/ listen_recv
    \/ listen_end
    \/ listen_return
    \/ \E w \in Threads : stream_open(w)
    \/ \E w \in Threads : stream_seek(w)
    \/ \E w \in Threads : copy_chunk(w)
    \/ \E w \in Threads : copy_eof(w)
    \/ \E w \in Threads : copy_interrupted(w)
    \/ \E w \in Threads : copy_read_error(w)

SerialSpec == SerialInit /\ [][SerialNext]_vars

ParallelInit == InitWith({Parallel(n) : n \in 1..MaxWorkers}, 0..MaxParallelLen)

\* the steps of a download in mode Parallel(n). listen_end is not among them:
\* download_parallel keeps tx until it returns, so that in this mode
\* disconnected never holds while listen runs (see C2_ParallelReturns)
ParallelNext ==
    \/ download_parallel_head
    \/ download_parallel_size
    \/ download_parallel_spawn
    \/ download_parallel_join
    \/ listen_recv
    \/ listen_return
    \/ \E w \in Threads : thread_get(w)
    \/ \E w \in Threads : stream_open(w)
    \/ \E w \in Threads : stream_seek(w)
    \/ \E w \in Threads : copy_chunk(w)
    \/ \E w \in Threads : copy_eof(w)
    \/ \E w \in Threads : copy_interrupted(w)
    \/ \E w \in Threads : copy_read_error(w)

ParallelSpec == ParallelInit /\ [][ParallelNext]_vars

\* download_parallel after a successful head and set_target_len, for larger
\* lengths and thread counts: the loop that computes the ranges, alone
PlanInit ==
    /\ mode \in {Parallel(n) : n \in 1..MaxPlanWorkers}
    /\ target = "Default"
    /\ reporter = "ProgressBarReporter"
    /\ resource_len \in 0..MaxPlanLen
    /\ server = "ignores_range"
    /\ pc = "spawn"
    /\ probe = PlainResponse(TRUE, resource_len, TRUE, TRUE)
    /\ size = resource_len
    /\ i = 0
    /\ tx = TRUE
    /\ rx = TRUE
    /\ queue = <<>>
    /\ pb = 0
    /\ result = Pending
    /\ file = [exists |-> TRUE, data |-> Zeros(resource_len)]
    /\ sized = TRUE
    /\ stdout = <<>>
    /\ wpc = [w \in Threads |-> "idle"]
    /\ headers = [w \in Threads |-> ByteRangeSpec(0, 0)]
    /\ offset = [w \in Threads |-> 0]
    /\ response = [w \in Threads |-> NoResponse]
    /\ handle = [w \in Threads |-> "none"]
    /\ pos = [w \in Threads |-> 0]
    /\ written = [w \in Threads |-> 0]
    /\ sent = [w \in Threads |-> <<>>]
    /\ interrupted = 0
    /\ wres = [w \in Threads |-> Pending]

PlanNext == download_parallel_spawn

PlanSpec == PlanInit /\ [][PlanNext]_vars

\* downloads in either mode, the parallel ones of the shorter resources
ShortInit == SerialInit \/ ParallelInit

ShortSpec == ShortInit /\ [][Next]_vars

\* the threads are scheduled by the operating system: while some thread can
\* take a step, a step is taken
FairSpec == Spec /\ WF_vars(Next)

\* the same for the downloads in mode Serial
FairSerialSpec == SerialSpec /\ WF_vars(SerialNext)

(* ------------------------------- the claims ---------------------------- *)

\* the destination of the download
Destination == IF target = "StdOut" THEN stdout ELSE file.data

\* every child has been spawned and has returned
AllReturned == i = Cardinality(Threads) /\ \A w \in Threads : wpc[w] = "done"

\* the loop of download_parallel has computed every range
Planned == mode.parallel /\ i = mode.n

\* the bytes [start, end) of child w's range
Segment(w) == headers[w].from .. (headers[w].to - 1)

\* C1: when every worker of a parallel download has succeeded, the
\* destination holds the resource's bytes [0, L), whatever the interleaving.
C1_ParallelContent ==
    (mode.parallel /\ AllReturned /\ \A w \in Threads : wres[w].ok)
        => Destination = Resource(resource_len)

\* C2: in a parallel download, once sizing has succeeded and every worker has
\* returned and dropped its sender, listen ends and download() returns.
C2_ParallelReturns ==
    (mode.parallel /\ sized /\ AllReturned) ~> (pc = "done")

\* C3: the n planned ranges, read as [start, end), are pairwise disjoint, have
\* non-decreasing starts and cover exactly [0, totalLength).
C3_PlanCovers ==
    Planned =>
        /\ Cardinality(DOMAIN headers) = mode.n
        /\ \A a, b \in Threads : a # b => Segment(a) \cap Segment(b) = {}
        /\ \A a, b \in Threads : a < b => headers[a].from <= headers[b].from
        /\ UNION {Segment(w) : w \in Threads} = 0..(size - 1)

\* C4: the last planned segment ends at totalLength and every earlier one has
\* length totalLength / n; for totalLength 10 and n 3: [0,3), [3,6), [6,10).
C4_LastAbsorbsRemainder ==
    Planned =>
        /\ headers[mode.n - 1].to = size
        /\ \A w \in Threads :
            w < mode.n - 1 => headers[w].to - headers[w].from = size \div mode.n
        /\ (size = 10 /\ mode.n = 3) =>
                /\ headers[0] = ByteRangeSpec(0, 3)
                /\ headers[1] = ByteRangeSpec(3, 6)
                /\ headers[2] = ByteRangeSpec(6, 10)

\* C5: in a parallel download, once sizing has succeeded, download() has
\* either not returned or returned Ok(size), size being the probed length,
\* whatever the workers returned.
C5_ParallelOkOnly ==
    (mode.parallel /\ sized) =>
        /\ size = probe.length
        /\ result \in {Pending, Ok(size)}
        /\ pc = "done" => result = Ok(size)

\* a parallel download that returned Ok(size) although a worker failed and
\* fewer than size bytes were written
C5_Witness ==
    /\ mode.parallel /\ pc = "done" /\ result = Ok(size)
    /\ \E w \in Threads : IsErr(wres[w])
    /\ Sum([w \in 1..mode.n |-> written[w - 1]]) < size

\* the errors get and parse_content_length return in download_serial
ProbeErrors ==
    {HyperError, IoError, NoLengthError,
     <<StatusText(404), ": ", "not found">>}

\* the errors set_target_len returns
SizingErrors == {CreateError, IoError, StdOutError}

\* the first response is one the code goes on with: 200, with a length
ProbeOk == probe.status = 200 /\ probe.has_length

\* C6: a serial download returns the error of the step that failed (the GET,
\* the content length, sizing, the worker's stream), and Ok only when all of
\* them succeeded.
C6_SerialPropagates ==
    (~mode.parallel /\ pc = "done") =>
        /\ result # Pending
        /\ ~ProbeOk => IsErr(result) /\ result.msg \in ProbeErrors /\ ~sized
        /\ (ProbeOk /\ ~sized) => IsErr(result) /\ result.msg \in SizingErrors
        /\ sized => wpc[0] = "done" /\ result = wres[0]
        /\ result.ok => ProbeOk /\ sized /\ wres[0] = Ok(written[0])

\* a serial download that returned the error of a stream that had already
\* written bytes
C6_Witness ==
    /\ ~mode.parallel /\ pc = "done" /\ sized
    /\ IsErr(result) /\ result = wres[0] /\ written[0] > 0

Contains(msg, piece) == \E k \in DOMAIN msg : msg[k] = piece

\* nothing has been done to the destination and no thread exists
Untouched ==
    /\ ~sized
    /\ i = 0
    /\ \A w \in Threads : wpc[w] = "idle" /\ sent[w] = <<>> /\ written[w] = 0
    /\ queue = <<>>
    /\ stdout = <<>>

\* the serial GET was answered with a status other than 200
SerialNon200 ==
    ~mode.parallel /\ pc = "done" /\ probe.status \notin {0, 200}

\* C7, as claimed: a serial GET answered with a status other than 200 makes
\* download() return an error whose message contains the status and the
\* body text, the destination untouched.
C7_Non200MessageAlways ==
    SerialNon200 =>
        /\ IsErr(result)
        /\ Contains(result.msg, StatusText(probe.status))
        /\ Contains(result.msg, probe.text)
        /\ Untouched

\* C7, amended: a serial GET answered with a status other than 200 makes
\* download() return an error, the destination untouched; the message
\* contains the status and the body text unless reading the body failed, and
\* then it is that I/O error.
C7_Non200Message ==
    SerialNon200 =>
        /\ IsErr(result)
        /\ \/ result.msg = IoError
           \/ /\ Contains(result.msg, StatusText(probe.status))
              /\ Contains(result.msg, probe.text)
        /\ Untouched
        /\ file.exists => file.data = <<9>>

\* a serial download answered 404 "not found" that returned the message
\* with both
C7_Witness ==
    /\ SerialNon200 /\ probe.status = 404
    /\ result = Err(<<"404 Not Found", ": ", "not found">>)

\* C8: a parallel download to standard output returns the error of
\* set_target_len once the head succeeded, and never spawns a worker, sends
\* a range request or writes to standard output.
C8_StdOutParallel ==
    (mode.parallel /\ target = "StdOut") =>
        /\ ~sized /\ i = 0 /\ stdout = <<>>
        /\ \A w \in Threads : wpc[w] = "idle" /\ response[w] = NoResponse
        /\ pc = "done" => IsErr(result)
        /\ (pc = "done" /\ ProbeOk) => result = Err(StdOutError)

\* a parallel download to standard output that returned the error of sizing
C8_Witness ==
    /\ mode.parallel /\ target = "StdOut" /\ mode.n = MaxWorkers
    /\ pc = "done" /\ ProbeOk /\ result = Err(StdOutError)

\* C9: a serial download to standard output, answered 200 with a content
\* length, streams the whole body to standard output and returns Ok with
\* the number of bytes written.
C9_SerialStdOut ==
    (~mode.parallel /\ target = "StdOut" /\ pc = "done" /\ ProbeOk) =>
        /\ result = Ok(Len(stdout))
        /\ stdout = Resource(resource_len)

\* C10: the sum of the len of the segments the reporter has received never
\* exceeds the probed total length.
C10_ProgressBounded == pb <= size

\* C11: from the end of sizing until download() returns the destination
\* file is never shorter than the total length: no worker creates or
\* truncates it again.
C11_FileKeepsLength ==
    (sized /\ pc # "done") => Len(file.data) >= size

\* C12: a download with one worker behaves in mode Parallel(1) as it does in
\* mode Serial: once it has returned, the result is an error if sizing was
\* not reached and the worker's own result otherwise, and with Ok the
\* destination holds the resource.
C12_ParallelOneAsSerial ==
    (Cardinality(Threads) = 1 /\ pc = "done") =>
        /\ IF sized THEN result = wres[0] ELSE IsErr(result)
        /\ result.ok => Destination = Resource(resource_len)

\* the len of the segments a worker has sent
Lens(w) == [k \in DOMAIN sent[w] |-> sent[w][k].len]

WrittenOffsets(w) == offset[w] .. (offset[w] + written[w] - 1)

\* C14: in a parallel download every worker writes inside its own segment
\* [start, end) only: no offset is written by two workers and none at or
\* beyond the total length.
C14_WritesInsideSegment ==
    mode.parallel =>
        /\ \A w \in Threads : WrittenOffsets(w) \subseteq Segment(w)
        /\ \A a, b \in Threads :
            a # b => WrittenOffsets(a) \cap WrittenOffsets(b) = {}
        /\ \A w \in Threads : \A o \in WrittenOffsets(w) : o < size

\* the destination file is as it was before download() was called
Pristine ==
    file \in {[exists |-> FALSE, data |-> <<>>], [exists |-> TRUE, data |-> <<9>>]}

\* C15: download() goes probe, size, spawn, join: the destination is not
\* created or resized before a 200 response with a content length, and
\* without a successful sizing no worker is spawned, no byte written and no
\* segment sent; listen and the joins come after the last spawn.
C15_ProbeSizeSpawnJoin ==
    /\ ~ProbeOk => Pristine /\ ~sized
    /\ sized => ProbeOk /\ size = probe.length /\ pc \notin {"start", "sizing"}
    /\ ~sized =>
        /\ i = 0 /\ queue = <<>> /\ pb = 0 /\ stdout = <<>>
        /\ \A w \in Threads :
            wpc[w] = "idle" /\ written[w] = 0 /\ sent[w] = <<>>
        /\ pc \in {"start", "sizing", "done"}
    /\ \A w \in Threads : wpc[w] # "idle" <=> w < i
    /\ pc \in {"listen", "join"} => i = Cardinality(Threads)
    /\ (pc = "done" /\ sized) => AllReturned

\* a download that returned after its workers wrote bytes and sent segments
C15_Witness ==
    /\ pc = "done" /\ sized /\ ProbeOk /\ ~Pristine
    /\ \E w \in Threads : written[w] > 0 /\ sent[w] # <<>>

\* C16: a worker of a parallel download whose planned segment is empty
\* writes nothing, sends no segment and returns Ok(0), whatever the server
\* answers to its request.
C16_EmptySegmentNoOp ==
    \A w \in Threads :
        (mode.parallel /\ w < i /\ headers[w].from = headers[w].to) =>
            /\ written[w] = 0
            /\ sent[w] = <<>>
            /\ wpc[w] = "done" => wres[w] = Ok(0)

\* C17: the segment a worker sends once it has written w bytes in total
\* carries the absolute offset at which that write ended: the offset its
\* stream started from plus w.
C17_AbsoluteOffset ==
    \A w \in Threads : \A k \in DOMAIN sent[w] :
        sent[w][k].start = offset[w] + Sum(SubSeq(Lens(w), 1, k))

\* C18: the segments one worker sends have strictly increasing start, each
\* a len between 1 and the buffer size, and together they report no more
\* than the worker has written.
C18_EventsIncrease ==
    \A w \in Threads :
        /\ \A k \in DOMAIN sent[w] :
            /\ sent[w][k].len >= 1
            /\ sent[w][k].len <= DEFAULT_BUFF_SIZE
            /\ k > 1 => sent[w][k - 1].start < sent[w][k].start
            /\ sent[w][k].start <= written[w]
        /\ Sum(Lens(w)) = written[w]

\* a worker that has sent more than one segment
C18_Witness == \E w \in Threads : Len(sent[w]) >= 2 /\ written[w] = MaxLen

\* the state but for the count of interrupted reads
but_interrupted ==
    <<inputs, orch, chan, file, stdout, wpc, headers, offset, response,
      handle, pos, written, sent, wres>>

\* C19: in copy_with_reporter a read interrupted is tried again with the
\* written count, the destination, the channel and the worker as they
\* were; a copy that ends with an error ends with the I/O error, and its
\* last step has written nothing, counted nothing and sent no segment.
C19_ReadErrors ==
    [][/\ interrupted' # interrupted => UNCHANGED but_interrupted
       /\ \A w \in Threads :
            (wpc[w] = "copy" /\ wpc'[w] = "done" /\ IsErr(wres'[w])) =>
                /\ wres'[w] = Err(IoError)
                /\ UNCHANGED <<written, sent, queue, pb, file, stdout>>]_vars

\* a worker whose read was interrupted, that went on to write a chunk and
\* then failed
C19_Witness ==
    /\ interrupted >= 1
    /\ \E w \in Threads :
        /\ wpc[w] = "done" /\ wres[w] = Err(IoError)
        /\ written[w] > 0 /\ Len(sent[w]) >= 1

\* C20: in a serial download the downloader's sender is gone once its
\* stream has returned, listen then ends and download() returns the
\* downloader's result: a serial download() always returns.
C20_SerialReturns ==
    /\ []((~mode.parallel /\ wpc[0] = "done") => ~SendersAlive)
    /\ (~mode.parallel /\ wpc[0] = "done")
            ~> (pc = "done" /\ result = wres[0])
    /\ (~mode.parallel /\ pc = "start") ~> (pc = "done")

\* a serial download with the progress bar that returned Ok after the bar
\* had received every segment
C20_Witness ==
    /\ ~mode.parallel /\ reporter = "ProgressBarReporter"
    /\ pc = "done" /\ result = Ok(size) /\ size > 0 /\ pb = size
    /\ ~rx /\ ~SendersAlive

====
